---- MODULE Spec2Model ----
(***************************************************************************)
(* Model of truth_monitor.py: the poll loop run_monitor with its cursor    *)
(* latest_seen_post_id, and the pure string functions clean_html and       *)
(* format_gemini_for_email.                                                *)
(*                                                                         *)
(* Python strings are modelled as sequences of lexemes.  A lexeme is       *)
(* either one special character ("[", "]", "<", ">", "&", " ", "\n") or a  *)
(* run of ordinary characters ("NONE", "Tesla", "amp;") that holds no      *)
(* special character.                                                      *)
(***************************************************************************)
EXTENDS Integers, Sequences, FiniteSets, TLC

\* ------------------------------------------------------------------ bounds
\* Post identifiers are "1" .. ToString(MaxId).
MaxId == 2
\* Longest free-form string handed to the pure functions.
MaxLen == 4
\* Most bracket tokens in a generated annotation string.
MaxTokens == 5

\* --------------------------------------------------------- string helpers
\* str.upper() on a lexeme.
Upper(l) ==
    CASE l = "none" -> "NONE"
      [] l = "up" -> "UP"
      [] l = "down" -> "DOWN"
      [] l = "mentioned" -> "MENTIONED"
      [] OTHER -> l

UpperStr(s) == [k \in 1..Len(s) |-> Upper(s[k])]

IsSpace(l) == l \in {" ", "\n"}

RECURSIVE lstrip(_)
lstrip(s) ==
    IF s # <<>> /\ IsSpace(Head(s)) THEN lstrip(Tail(s)) ELSE s

RECURSIVE rstrip(_)
rstrip(s) ==
    IF s # <<>> /\ IsSpace(s[Len(s)]) THEN rstrip(SubSeq(s, 1, Len(s) - 1)) ELSE s

\* str.strip()
strip(s) == rstrip(lstrip(s))

\* str.startswith(prefix)
startswith(s, prefix) ==
    Len(s) >= Len(prefix) /\ SubSeq(s, 1, Len(prefix)) = prefix

\* Index of the first occurrence of lexeme c in s at or after position from,
\* 0 when there is none.
RECURSIVE IndexFrom(_, _, _)
IndexFrom(s, c, from) ==
    IF from > Len(s) THEN 0
    ELSE IF s[from] = c THEN from
    ELSE IndexFrom(s, c, from + 1)

\* "\n".join(lines)
RECURSIVE join(_)
join(lines) ==
    IF lines = <<>> THEN <<>>
    ELSE IF Len(lines) = 1 THEN lines[1]
    ELSE lines[1] \o <<"\n">> \o join(Tail(lines))

\* ------------------------------------------------------------- clean_html
\* The named character references the model knows: "&" followed by the
\* lexeme on the left is replaced by the character on the right.
EntityNames == {"amp;", "lt;", "gt;"}

Entity(name) ==
    CASE name = "amp;" -> "&"
      [] name = "lt;" -> "<"
      [] name = "gt;" -> ">"

\* html.unescape: one left-to-right pass, replaced text is not rescanned.
RECURSIVE unescape(_)
unescape(s) ==
    IF s = <<>> THEN <<>>
    ELSE IF Len(s) >= 2 /\ s[1] = "&" /\ s[2] \in EntityNames
         THEN <<Entity(s[2])>> \o unescape(SubSeq(s, 3, Len(s)))
    ELSE <<s[1]>> \o unescape(Tail(s))

\* re.sub(r'<[^>]+>', '', s): a tag is "<", one or more lexemes other than
\* ">", then ">".
RECURSIVE remove_tags(_)
remove_tags(s) ==
    IF s = <<>> THEN <<>>
    ELSE IF s[1] = "<" /\ Len(s) >= 2 /\ s[2] # ">" /\ IndexFrom(s, ">", 2) # 0
         THEN remove_tags(SubSeq(s, IndexFrom(s, ">", 2) + 1, Len(s)))
    ELSE <<s[1]>> \o remove_tags(Tail(s))

\* Variant of clean_html: tags are removed before entities are decoded.
clean_html_tags_first(raw_html) == strip(unescape(remove_tags(raw_html)))

clean_html(raw_html) == strip(remove_tags(unescape(raw_html)))

\* ------------------------------------------------ format_gemini_for_email
\* Variant of findall_brackets: "." also matches a newline (re.DOTALL).
RECURSIVE findall_brackets_dotall(_)
findall_brackets_dotall(s) ==
    IF s = <<>> THEN <<>>
    ELSE IF s[1] = "[" /\ IndexFrom(s, "]", 2) # 0
         THEN <<SubSeq(s, 2, IndexFrom(s, "]", 2) - 1)>>
              \o findall_brackets_dotall(SubSeq(s, IndexFrom(s, "]", 2) + 1, Len(s)))
    ELSE findall_brackets_dotall(Tail(s))

\* re.findall(r'\[(.*?)\]', s): the bracketed sections, in order.  A section
\* runs from a "[" to the first "]" after it and holds no newline.
RECURSIVE findall_brackets(_)
findall_brackets(s) ==
    IF s = <<>> THEN <<>>
    ELSE IF s[1] = "["
            /\ IndexFrom(s, "]", 2) # 0
            /\ \A k \in 2..(IndexFrom(s, "]", 2) - 1) : s[k] # "\n"
         THEN <<SubSeq(s, 2, IndexFrom(s, "]", 2) - 1)>>
              \o findall_brackets(SubSeq(s, IndexFrom(s, "]", 2) + 1, Len(s)))
    ELSE findall_brackets(Tail(s))

ImpactLabels == {<<"UP">>, <<"DOWN">>, <<"MENTIONED">>}

\* The display glyph of an impact label.
impact_display(impact_text) ==
    CASE impact_text = <<"UP">> -> <<"CHART_UP">>
      [] impact_text = <<"DOWN">> -> <<"CHART_DOWN">>
      [] impact_text = <<"MENTIONED">> -> <<"SPEECH">>
      [] OTHER -> impact_text

\* One rendered line "{entity}{detail}: {impact_display}".
entity_line(entity, ticker_sector, impact_text) ==
    entity
    \o (IF ticker_sector # <<>> /\ ticker_sector # entity
        THEN <<" (">> \o ticker_sector \o <<")">>
        ELSE <<>>)
    \o <<": ">> \o impact_display(impact_text)

\* The grouping loop: the lines produced from analysis_parts[i..].
RECURSIVE formatted_lines(_, _)
formatted_lines(analysis_parts, i) ==
    IF i > Len(analysis_parts) THEN <<>>
    ELSE IF i + 2 <= Len(analysis_parts)
            /\ UpperStr(analysis_parts[i + 2]) \in ImpactLabels
         THEN <<entity_line(analysis_parts[i], analysis_parts[i + 1],
                            UpperStr(analysis_parts[i + 2]))>>
              \o formatted_lines(analysis_parts, i + 3)
    ELSE IF i + 1 <= Len(analysis_parts)
            /\ UpperStr(analysis_parts[i + 1]) \in ImpactLabels
         THEN <<entity_line(analysis_parts[i], <<>>,
                            UpperStr(analysis_parts[i + 1]))>>
              \o formatted_lines(analysis_parts, i + 2)
    ELSE <<(<<"[">> \o analysis_parts[i] \o <<"]">>)>>
         \o formatted_lines(analysis_parts, i + 1)

\* Variant of format_gemini_for_email: the branch for the "NONE" marker is
\* missing, so the marker goes through the grouping loop.
format_gemini_without_none_branch(gemini_response_text) ==
    LET parts == findall_brackets(gemini_response_text)
        justification == parts[Len(parts)]
        analysis_parts == SubSeq(parts, 1, Len(parts) - 1)
    IN  IF gemini_response_text = <<>> THEN <<"Invalid Gemini response received.">>
        ELSE IF parts = <<>> THEN gemini_response_text
        ELSE IF analysis_parts = <<>> THEN justification
        ELSE join(formatted_lines(analysis_parts, 1)) \o <<"\n", "\n">> \o justification

InvalidResponse == <<"Invalid Gemini response received.">>

format_gemini_for_email(gemini_response_text) ==
    LET parts == findall_brackets(gemini_response_text)
        justification == parts[Len(parts)]
        analysis_parts == SubSeq(parts, 1, Len(parts) - 1)
        formatted_analysis ==
            IF UpperStr(analysis_parts[1]) = <<"NONE">>
            THEN <<"NONE">>
            ELSE join(formatted_lines(analysis_parts, 1))
    IN  IF gemini_response_text = <<>> THEN InvalidResponse
        ELSE IF parts = <<>> THEN gemini_response_text
        ELSE IF analysis_parts = <<>> THEN justification
        ELSE formatted_analysis \o <<"\n", "\n">> \o justification

\* ------------------------------------------------------------ the monitor
VARIABLES
    pc,                     \* position of run_monitor
    browser,                \* "none" | "open" | "closed"
    latest_seen_post_id,    \* the cursor: None or a post id
    posts,                  \* value returned by the last fetch
    NOTIFY_ALL,             \* configuration, fixed at start-up
    FOCUS,
    CHECK_INTERVAL_SECONDS,
    seen_at_fetch,          \* the cursor when the last fetch returned
    prev_latest_id,         \* newest id of the fetch before the last one
    id_seen_before,         \* a fetch before the last one returned an id
    detected_id,            \* newest id the loop last seeded from or found new
    gemini_call,            \* classifier call of the current cycle
    final_prompt,
    gemini_response_text,
    email_call,             \* send_email call of the current cycle
    email_body,
    exit_by,                \* what ended the run
    credentials,            \* the required environment variables
    exit_status,            \* argument of the exit() call that ended the
                            \*   process, 0 while there was none
    cycle_events,           \* calls of the current cycle, in order
    announced_ids,          \* ids send_email tried to deliver a message for
    announced_again,        \* this cycle's id was in announced_ids already
    fn_name,                \* pure function under test, its input and result
    fn_input_type,          \* Python type of the input: "str" or another
    fn_input,
    fn_output,
    loop_parts,             \* the grouping loop: analysis_parts,
    loop_i,                 \*   the index i (counted from 0),
    loop_lines,             \*   formatted_lines,
    loop_groups             \*   and where each iteration started and how
                            \*   many tokens it took

monitor_vars ==
    <<pc, browser, latest_seen_post_id, posts, NOTIFY_ALL, FOCUS,
      CHECK_INTERVAL_SECONDS, seen_at_fetch, prev_latest_id, id_seen_before,
      detected_id, gemini_call, final_prompt, gemini_response_text, email_call, email_body,
      exit_by, credentials, exit_status, cycle_events, announced_ids,
      announced_again>>

fn_vars ==
    <<fn_name, fn_input_type, fn_input, fn_output, loop_parts, loop_i, loop_lines,
      loop_groups>>

vars == <<monitor_vars, fn_vars>>

\* Python None, and the marker of a key a record does not have.
None == "None"
Missing == "<missing>"

PostIds == {ToString(n) : n \in 1..MaxId}

\* Default of CHECK_INTERVAL_SECONDS.
DefaultInterval == 10

\* Post bodies the feed may carry: "", "<p></p>" and
\* "<p>Hello &amp; welcome</p>".
ContentSamples ==
    { <<>>,
      <<"<", "p", ">", "<", "/p", ">">>,
      <<"<", "p", ">", "Hello", " ", "&", "amp;", " ", "welcome", "<", "/p", ">">> }

\* A post record.  content_type tells a string from an absent key and from a
\* JSON value that is no string; media tells an absent or well-formed
\* media_attachments list from one whose first element is no object.
PostRecords ==
    [is_dict : {TRUE}, id : PostIds \cup {Missing}, content_type : {"str"},
     content : ContentSamples, media : {"absent", "ok", "bad"}]
    \cup
    [is_dict : {TRUE}, id : PostIds \cup {Missing}, content_type : {"absent", "null"},
     content : {<<>>}, media : {"absent", "ok", "bad"}]

NoPost ==
    [is_dict |-> FALSE, id |-> Missing, content_type |-> "absent",
     content |-> <<>>, media |-> "absent"]

\* What fetch_latest_posts_playwright can return: None (any failure), a JSON
\* value that is no list, an empty list, or a list ("first" is its element 0).
FetchResults ==
    { [kind |-> k, first |-> NoPost] : k \in {"null", "dict", "empty", "list"} }
    \cup { [kind |-> "list", first |-> p] : p \in PostRecords }

\* Raw response.text values of the classifier.
ResponseSamples ==
    { <<" ">>,
      <<"no", " ", "brackets">>,
      <<" ", "[", "NONE", "]", "[", "no relevance", "]", "\n">>,
      <<"[", "none", "]", "[", "why", "]">>,
      <<"[", "Tesla", "]", "[", "TSLA", "]", "[", "UP", "]", "[", "why", "]">> }

\* Outcomes of gemini_client.generate_content(...).text
GeminiOutcomes ==
    { [raised |-> TRUE, text |-> <<>>] }
    \cup { [raised |-> FALSE, text |-> t] : t \in ResponseSamples }

\* Outcomes of send_email: delivered, SMTP failure caught inside it, or an
\* exception raised while the message is built, before its try block.
EmailOutcomes == {"sent", "failed", "raised"}

NoneMarker == <<"[", "NONE", "]">>

\* posts and isinstance(posts, list) and len(posts) > 0
non_empty_list(p) == p.kind = "list"

\* Variant of has_id: the id is read with .get('id'), which never raises.
has_id_lenient(p) == p.first.is_dict

\* posts[0]['id'] evaluates without raising
has_id(p) == p.first.is_dict /\ p.first.id # Missing

\* Variant of is_changed: the newest id is not compared with the cursor.
is_changed_always(seen, current_latest_id) == TRUE

\* latest_seen_post_id is None or current_latest_id != latest_seen_post_id
is_changed(seen, current_latest_id) ==
    seen = None \/ current_latest_id # seen

\* Variant of is_announced: the first post seen is announced too.
is_announced_always(seen) == TRUE

\* if latest_seen_post_id is not None: the post is announced, not seeded
is_announced(seen) == seen # None

\* Variant of should_send_email: the test of the marker is inverted.
should_send_email_inverted(notify_all, text) ==
    notify_all \/ startswith(text, NoneMarker)

\* Variant of should_send_email: NOTIFY_ALL is not consulted.
should_send_email_ignoring_flag(notify_all, text) ==
    ~startswith(text, NoneMarker)

\* NOTIFY_ALL or not gemini_response_text.startswith("[NONE]")
should_send_email(notify_all, text) ==
    notify_all \/ ~startswith(text, NoneMarker)

\* The focus clause put in front of the post text in the classifier prompt.
focus_section_text(focus) ==
    IF focus # None
    THEN <<"Focus on: ", focus, ". Also consider the broader market.", "\n", "\n">>
    ELSE <<>>

\* Variant of classifier_calls: a call that raised is made once more.
classifier_calls_with_retry(analysed, gem) ==
    IF ~analysed THEN <<>>
    ELSE IF gem.raised THEN <<"generate_content", "generate_content">>
    ELSE <<"generate_content">>

\* The calls of gemini_client.generate_content in one pass through the try
\* block: one if the post has text, whether it returns or raises.
classifier_calls(analysed, gem) ==
    IF analysed THEN <<"generate_content">> ELSE <<>>

\* The body of the loop's try block for a non-empty list p, with the cursor
\* at seen: what is called and the cursor afterwards.  gem and mail are what
\* the classifier and send_email do if they are called.
process_posts(seen, p, notify_all, focus, gem, mail) ==
    LET post == p.first
        current_latest_id == post.id
        new == has_id(p) /\ is_changed(seen, current_latest_id)
        announce == new /\ is_announced(seen)
        media_ok == post.media # "bad"
        content_ok == post.content_type # "null"
        cleaned_content == clean_html(post.content)
        analysed == announce /\ media_ok /\ content_ok /\ cleaned_content # <<>>
        text == IF analysed /\ ~gem.raised THEN strip(gem.text) ELSE <<>>
        emailing == text # <<>> /\ should_send_email(notify_all, text)
        completed ==
            new /\ (announce => media_ok /\ content_ok)
                /\ (emailing => mail # "raised")
    IN  [ cursor |-> IF completed THEN current_latest_id ELSE seen,
          detected |-> new,
          gemini |-> IF ~analysed THEN "not_called"
                     ELSE IF gem.raised THEN "raised" ELSE "returned",
          prompt |-> IF analysed
                     THEN focus_section_text(focus) \o cleaned_content
                     ELSE <<>>,
          response |-> text,
          email |-> IF emailing THEN mail ELSE "not_called",
          body |-> IF emailing
                   THEN cleaned_content \o <<"\n", "\n">> \o format_gemini_for_email(text)
                   ELSE <<>>,
          events |-> classifier_calls(analysed, gem)
                     \o (IF emailing THEN <<"send_email">> ELSE <<>>),
          delivery |-> emailing /\ mail # "raised" ]

LoopIdle ==
    loop_parts = <<>> /\ loop_i = 0 /\ loop_lines = <<>> /\ loop_groups = <<>>

FnIdle ==
    /\ fn_name = "none"
    /\ fn_input_type = "str"
    /\ fn_input = <<>>
    /\ fn_output = <<>>
    /\ LoopIdle

\* The four environment variables the module refuses to start without, and
\* what os.environ.get can give for each: None, "" or a value.
CredentialNames ==
    {"GEMINI_API_KEY", "SENDER_EMAIL", "SENDER_APP_PASSWORD", "RECIPIENT_EMAIL"}

CredentialValues == {None, "", "secret"}

MonitorIdle ==
    /\ pc = "startup"
    /\ exit_status = 0
    /\ cycle_events = <<>>
    /\ announced_ids = {}
    /\ announced_again = FALSE
    /\ browser = "none"
    /\ latest_seen_post_id = None
    /\ posts = [kind |-> "null", first |-> NoPost]
    /\ seen_at_fetch = None
    /\ prev_latest_id = None
    /\ id_seen_before = FALSE
    /\ detected_id = None
    /\ gemini_call = "not_called"
    /\ final_prompt = <<>>
    /\ gemini_response_text = <<>>
    /\ email_call = "not_called"
    /\ email_body = <<>>
    /\ exit_by = "none"

Init ==
    /\ MonitorIdle
    /\ credentials \in [CredentialNames -> CredentialValues]
    /\ NOTIFY_ALL \in BOOLEAN
    /\ FOCUS \in {None, "tariffs"}
    /\ CHECK_INTERVAL_SECONDS \in {DefaultInterval, -1}
    /\ FnIdle

config_vars == <<NOTIFY_ALL, FOCUS, CHECK_INTERVAL_SECONDS, credentials>>

history_vars == <<cycle_events, announced_ids, announced_again>>

cycle_vars ==
    <<gemini_call, final_prompt, gemini_response_text, email_call, email_body>>

\* Newest id of a fetch result, None when it has none.
latest_id(p) == IF non_empty_list(p) /\ has_id(p) THEN p.first.id ELSE None

\* "if not X" of the validation: X is None or "".
is_set(name) == credentials[name] \notin {None, ""}

\* Variant of credentials_ok: RECIPIENT_EMAIL is not validated.
credentials_ok_without_recipient ==
    is_set("GEMINI_API_KEY") /\ is_set("SENDER_EMAIL") /\ is_set("SENDER_APP_PASSWORD")

\* None of the four exit(1) of the validation is reached.
credentials_ok ==
    /\ is_set("GEMINI_API_KEY")
    /\ is_set("SENDER_EMAIL")
    /\ is_set("SENDER_APP_PASSWORD")
    /\ is_set("RECIPIENT_EMAIL")

startup_unchanged ==
    /\ UNCHANGED <<browser, latest_seen_post_id, posts, seen_at_fetch,
                   prev_latest_id, id_seen_before, detected_id, exit_by>>
    /\ UNCHANGED <<config_vars, cycle_vars, history_vars, fn_vars>>

\* The validation at import: exit(1) at the first credential that is unset.
Validation ==
    /\ pc = "startup"
    /\ IF credentials_ok
       THEN pc' = "configure" /\ UNCHANGED exit_status
       ELSE pc' = "exited" /\ exit_status' = 1
    /\ startup_unchanged

\* genai.configure and GenerativeModel: exit(1) if either raises.
ConfigureGemini ==
    /\ pc = "configure"
    /\ \E raised \in BOOLEAN :
        IF raised
        THEN pc' = "exited" /\ exit_status' = 1
        ELSE pc' = "launch" /\ UNCHANGED exit_status
    /\ startup_unchanged

\* browser = playwright.chromium.launch(...); new_context; new_page
Launch ==
    /\ pc = "launch"
    /\ browser' = "open"
    /\ pc' = "initial_fetch"
    /\ UNCHANGED <<latest_seen_post_id, posts, seen_at_fetch, prev_latest_id,
                   id_seen_before, detected_id, exit_by>>
    /\ UNCHANGED <<config_vars, cycle_vars, fn_vars, exit_status>>
    /\ UNCHANGED history_vars

\* The cursor after the initial fetch returned initial_data.
initial_seed(seen, initial_data) ==
    IF non_empty_list(initial_data)
    THEN (IF has_id(initial_data) THEN initial_data.first.id ELSE None)
    ELSE seen

\* The initial fetch and the seeding that follows it.  initial_data[0]['id']
\* on an element that is no object raises TypeError, which the except clause
\* (KeyError, IndexError) does not catch: it leaves run_monitor.
InitialFetch ==
    /\ pc = "initial_fetch"
    /\ \E initial_data \in FetchResults :
        /\ posts' = initial_data
        /\ IF non_empty_list(initial_data) /\ ~initial_data.first.is_dict
           THEN /\ pc' = "propagated"
                /\ exit_by' = "TypeError"
                /\ UNCHANGED <<latest_seen_post_id, detected_id>>
           ELSE /\ pc' = "fetch"
                /\ latest_seen_post_id' = initial_seed(latest_seen_post_id, initial_data)
                /\ detected_id' = latest_id(initial_data)
                /\ UNCHANGED exit_by
    /\ seen_at_fetch' = latest_seen_post_id
    /\ prev_latest_id' = None
    /\ id_seen_before' = FALSE
    /\ UNCHANGED <<browser, config_vars, cycle_vars, fn_vars, exit_status>>
    /\ UNCHANGED history_vars

\* KeyboardInterrupt while the initial fetch blocks: the fetch catches only
\* Exception, and the call is outside run_monitor's try.
InitialInterrupt ==
    /\ pc = "initial_fetch"
    /\ pc' = "propagated"
    /\ exit_by' = "KeyboardInterrupt"
    /\ UNCHANGED <<browser, latest_seen_post_id, posts, seen_at_fetch,
                   prev_latest_id, id_seen_before, detected_id>>
    /\ UNCHANGED <<config_vars, cycle_vars, fn_vars, exit_status>>
    /\ UNCHANGED history_vars

\* posts = fetch_latest_posts_playwright(page), at the top of the loop.
LoopFetch ==
    /\ pc = "fetch"
    /\ \E p \in FetchResults : posts' = p
    /\ pc' = "process"
    /\ seen_at_fetch' = latest_seen_post_id
    /\ prev_latest_id' = latest_id(posts)
    /\ id_seen_before' = (id_seen_before \/ latest_id(posts) # None)
    /\ gemini_call' = "not_called"
    /\ final_prompt' = <<>>
    /\ gemini_response_text' = <<>>
    /\ email_call' = "not_called"
    /\ email_body' = <<>>
    /\ UNCHANGED <<browser, latest_seen_post_id, detected_id, exit_by>>
    /\ UNCHANGED <<config_vars, fn_vars, exit_status>>
    /\ cycle_events' = <<"fetch">>
    /\ announced_again' = FALSE
    /\ UNCHANGED announced_ids

\* Variant of SkipCycle: a failed fetch resets the cursor, as the initial
\* seeding does on a missing id.
SkipCycleResettingCursor ==
    /\ pc = "process"
    /\ ~non_empty_list(posts)
    /\ pc' = "sleep"
    /\ latest_seen_post_id' = None
    /\ UNCHANGED <<browser, posts, seen_at_fetch, prev_latest_id, id_seen_before,
                   detected_id, exit_by>>
    /\ UNCHANGED <<config_vars, cycle_vars, fn_vars, exit_status>>
    /\ UNCHANGED history_vars

\* Variant of SkipCycle: a failed fetch goes straight to the next fetch, as
\* a "continue" in front of the sleep would.
SkipCycleContinue ==
    /\ pc = "process"
    /\ ~non_empty_list(posts)
    /\ pc' = "fetch"
    /\ UNCHANGED <<browser, latest_seen_post_id, posts, seen_at_fetch,
                   prev_latest_id, id_seen_before, detected_id, exit_by>>
    /\ UNCHANGED <<config_vars, cycle_vars, fn_vars, exit_status>>
    /\ UNCHANGED history_vars

\* The fetch gave None or no non-empty list: the if at the top of the loop
\* is false and control goes to the sleep.
SkipCycle ==
    /\ pc = "process"
    /\ ~non_empty_list(posts)
    /\ pc' = "sleep"
    /\ UNCHANGED <<browser, latest_seen_post_id, posts, seen_at_fetch,
                   prev_latest_id,
                   id_seen_before, detected_id, exit_by>>
    /\ UNCHANGED <<config_vars, cycle_vars, fn_vars, exit_status>>
    /\ UNCHANGED history_vars

\* The try block of the loop and its two except clauses.
ProcessPosts ==
    /\ pc = "process"
    /\ non_empty_list(posts)
    /\ \E gem \in GeminiOutcomes, mail \in EmailOutcomes :
        LET r == process_posts(latest_seen_post_id, posts, NOTIFY_ALL, FOCUS,
                               gem, mail)
        IN  /\ latest_seen_post_id' = r.cursor
            /\ detected_id' = IF r.detected THEN posts.first.id ELSE detected_id
            /\ gemini_call' = r.gemini
            /\ final_prompt' = r.prompt
            /\ gemini_response_text' = r.response
            /\ email_call' = r.email
            /\ email_body' = r.body
            /\ cycle_events' = cycle_events \o r.events
            /\ announced_ids' = announced_ids \cup
                    (IF r.delivery THEN {posts.first.id} ELSE {})
            /\ announced_again' = (r.delivery /\ posts.first.id \in announced_ids)
    /\ pc' = "sleep"
    /\ UNCHANGED <<browser, posts, seen_at_fetch, prev_latest_id, id_seen_before,
                   exit_by>>
    /\ UNCHANGED <<config_vars, fn_vars, exit_status>>

\* time.sleep(CHECK_INTERVAL_SECONDS)
Sleep ==
    /\ pc = "sleep"
    /\ CHECK_INTERVAL_SECONDS >= 0
    /\ pc' = "fetch"
    /\ UNCHANGED <<browser, latest_seen_post_id, posts, seen_at_fetch,
                   prev_latest_id,
                   id_seen_before, detected_id, exit_by>>
    /\ UNCHANGED <<config_vars, cycle_vars, fn_vars, exit_status>>
    /\ cycle_events' = Append(cycle_events, "sleep")
    /\ UNCHANGED <<announced_ids, announced_again>>

\* except / finally of run_monitor: browser.close(), then return.
close_browser(cause) ==
    /\ browser' = "closed"
    /\ pc' = "returned"
    /\ exit_by' = cause

\* time.sleep raises ValueError on a negative interval: except Exception,
\* then finally.
SleepRaises ==
    /\ pc = "sleep"
    /\ CHECK_INTERVAL_SECONDS < 0
    /\ close_browser("Exception")
    /\ UNCHANGED <<latest_seen_post_id, posts, seen_at_fetch, prev_latest_id,
                   id_seen_before, detected_id>>
    /\ UNCHANGED <<config_vars, cycle_vars, fn_vars, exit_status>>
    /\ cycle_events' = Append(cycle_events, "sleep")
    /\ UNCHANGED <<announced_ids, announced_again>>

\* KeyboardInterrupt anywhere inside the loop: except KeyboardInterrupt,
\* then finally.
Interrupt ==
    /\ pc \in {"fetch", "process", "sleep"}
    /\ close_browser("KeyboardInterrupt")
    /\ UNCHANGED <<latest_seen_post_id, posts, seen_at_fetch, prev_latest_id,
                   id_seen_before, detected_id>>
    /\ UNCHANGED <<config_vars, cycle_vars, fn_vars, exit_status>>
    /\ UNCHANGED history_vars

\* --------------------------------------------- the pure functions, alone
\* All strings of at most n lexemes of alphabet.
StringsUpTo(alphabet, n) == UNION { [1..k -> alphabet] : k \in 0..n }

\* Free-form annotation strings, with and without bracket tokens.
AnnotationAlphabet == {"[", "]", "NONE", "\n"}

\* Bracket tokens of generated annotation strings.
TokenSamples == {<<"NONE">>, <<"none">>, <<"up">>, <<"Tesla">>, <<"TSLA">>}

\* "[t1][t2]...[tn]"
RECURSIVE bracketed(_)
bracketed(tokens) ==
    IF tokens = <<>> THEN <<>>
    ELSE <<"[">> \o Head(tokens) \o <<"]">> \o bracketed(Tail(tokens))

FormatInputs ==
    StringsUpTo(AnnotationAlphabet, MaxLen)
    \cup { bracketed(ts) : ts \in StringsUpTo(TokenSamples, MaxTokens) }

\* HTML fragments.
HtmlAlphabet == {"<", ">", "&", "amp;", "lt;", "p", " "}

CleanInputs == StringsUpTo(HtmlAlphabet, MaxLen)

\* Types of value format_gemini_for_email may be handed that are no str.
OtherTypes == {"NoneType", "int"}

FnInit ==
    /\ MonitorIdle
    /\ credentials = [name \in CredentialNames |-> "secret"]
    /\ NOTIFY_ALL = FALSE
    /\ FOCUS = None
    /\ CHECK_INTERVAL_SECONDS = DefaultInterval
    /\ fn_name = "none"
    /\ \/ fn_input_type = "str" /\ fn_input \in FormatInputs \cup CleanInputs
       \/ fn_input_type \in OtherTypes /\ fn_input = <<>>
    /\ fn_output = <<>>
    /\ LoopIdle

loop_vars == <<loop_parts, loop_i, loop_lines, loop_groups>>

\* format_gemini_for_email(fn_input) as one call; a value that is falsy or no
\* str gets the fixed text.
CallFormat ==
    /\ fn_name = "none"
    /\ fn_name' = "format_gemini_for_email"
    /\ fn_output' = IF fn_input_type = "str"
                    THEN format_gemini_for_email(fn_input)
                    ELSE InvalidResponse
    /\ UNCHANGED <<fn_input_type, fn_input, loop_vars, monitor_vars>>

CallCleanHtml ==
    /\ fn_name = "none"
    /\ fn_input_type = "str"
    /\ fn_name' = "clean_html"
    /\ fn_output' = clean_html(fn_input)
    /\ UNCHANGED <<fn_input_type, fn_input, loop_vars, monitor_vars>>

\* The input reaches the else branch that holds the grouping loop.
reaches_loop(text) ==
    /\ Len(findall_brackets(text)) >= 2
    /\ UpperStr(findall_brackets(text)[1]) # <<"NONE">>

\* format_gemini_for_email up to the head of the while loop.
LoopEnter ==
    /\ fn_name = "none"
    /\ fn_input_type = "str"
    /\ reaches_loop(fn_input)
    /\ fn_name' = "format_loop"
    /\ loop_parts' = SubSeq(findall_brackets(fn_input), 1,
                            Len(findall_brackets(fn_input)) - 1)
    /\ loop_i' = 0
    /\ loop_lines' = <<>>
    /\ loop_groups' = <<>>
    /\ UNCHANGED <<fn_input_type, fn_input, fn_output, monitor_vars>>

\* analysis_parts[k].upper() in ['UP', 'DOWN', 'MENTIONED'], k counted from 0
label_at(parts, k) == UpperStr(parts[k + 1]) \in ImpactLabels

\* One iteration that takes n tokens and appends line.
loop_iteration(n, line) ==
    /\ fn_name = "format_loop"
    /\ loop_i < Len(loop_parts)
    /\ loop_i' = loop_i + n
    /\ loop_lines' = Append(loop_lines, line)
    /\ loop_groups' = Append(loop_groups, [at |-> loop_i, n |-> n])
    /\ UNCHANGED <<fn_name, fn_input_type, fn_input, fn_output, loop_parts,
                   monitor_vars>>

\* if i + 2 < len(analysis_parts) and analysis_parts[i+2] is a label
LoopGroupOfThree ==
    /\ loop_i + 2 < Len(loop_parts) /\ label_at(loop_parts, loop_i + 2)
    /\ loop_iteration(3, entity_line(loop_parts[loop_i + 1], loop_parts[loop_i + 2],
                                     UpperStr(loop_parts[loop_i + 3])))

\* Variant of LoopGroupOfTwo: the two-token test does not come second.
LoopGroupOfTwoFirst ==
    /\ loop_i + 1 < Len(loop_parts) /\ label_at(loop_parts, loop_i + 1)
    /\ loop_iteration(2, entity_line(loop_parts[loop_i + 1], <<>>,
                                     UpperStr(loop_parts[loop_i + 2])))

\* elif i + 1 < len(analysis_parts) and analysis_parts[i+1] is a label
LoopGroupOfTwo ==
    /\ ~(loop_i + 2 < Len(loop_parts) /\ label_at(loop_parts, loop_i + 2))
    /\ loop_i + 1 < Len(loop_parts) /\ label_at(loop_parts, loop_i + 1)
    /\ loop_iteration(2, entity_line(loop_parts[loop_i + 1], <<>>,
                                     UpperStr(loop_parts[loop_i + 2])))

\* Variant of LoopFallback: the index is not moved before the continue.
LoopFallbackStuck ==
    /\ ~(loop_i + 2 < Len(loop_parts) /\ label_at(loop_parts, loop_i + 2))
    /\ ~(loop_i + 1 < Len(loop_parts) /\ label_at(loop_parts, loop_i + 1))
    /\ Len(loop_lines) <= Len(loop_parts)
    /\ loop_iteration(0, <<"[">> \o loop_parts[loop_i + 1] \o <<"]">>)

\* else: the token alone, in brackets
LoopFallback ==
    /\ ~(loop_i + 2 < Len(loop_parts) /\ label_at(loop_parts, loop_i + 2))
    /\ ~(loop_i + 1 < Len(loop_parts) /\ label_at(loop_parts, loop_i + 1))
    /\ loop_iteration(1, <<"[">> \o loop_parts[loop_i + 1] \o <<"]">>)

\* The while condition is false: join the lines, add the justification.
LoopExit ==
    /\ fn_name = "format_loop"
    /\ ~(loop_i < Len(loop_parts))
    /\ fn_name' = "format_loop_done"
    /\ fn_output' = join(loop_lines) \o <<"\n", "\n">>
                    \o findall_brackets(fn_input)[Len(findall_brackets(fn_input))]
    /\ UNCHANGED <<fn_input_type, fn_input, loop_vars, monitor_vars>>

FnNext ==
    \/ CallFormat
    \/ CallCleanHtml
    \/ LoopEnter
    \/ LoopGroupOfThree
    \/ LoopGroupOfTwo
    \/ LoopFallback
    \/ LoopExit

FnSpec == FnInit /\ [][FnNext]_vars

\* ---------------------------------------------------------- specification
Next ==
    \/ Validation
    \/ ConfigureGemini
    \/ Launch
    \/ InitialFetch
    \/ InitialInterrupt
    \/ LoopFetch
    \/ SkipCycle
    \/ ProcessPosts
    \/ Sleep
    \/ SleepRaises
    \/ Interrupt

Spec == Init /\ [][Next]_vars

\* ------------------------------------------------------------- properties
\* The state right after a cycle's processing (the loop stands at the sleep).
CycleDone == pc = "sleep"

NoCalls == gemini_call = "not_called" /\ email_call = "not_called"

\* C1: the first fetch of a run that returns a non-empty list whose newest
\* record has an id - the initial fetch or a later loop fetch - calls neither
\* the classifier nor send_email, whatever NOTIFY_ALL and FOCUS are, and
\* leaves the cursor at that id.
CursorSeeding ==
    (pc \in {"fetch", "sleep"} /\ latest_id(posts) # None /\ ~id_seen_before)
        => (NoCalls /\ latest_seen_post_id = latest_id(posts))

\* A loop cycle seeded the cursor after the initial fetch had failed.
CursorSeedingWitness ==
    /\ CycleDone
    /\ prev_latest_id = None
    /\ ~id_seen_before
    /\ seen_at_fetch = None
    /\ posts.kind = "list"
    /\ posts.first.content_type = "str"
    /\ clean_html(posts.first.content) # <<>>
    /\ latest_seen_post_id = "2"
    /\ NOTIFY_ALL
    /\ FOCUS # None

\* C2: when two consecutive fetches carry the same newest id, the second
\* cycle calls neither the classifier nor send_email.
SameIdNoNotification ==
    (CycleDone /\ prev_latest_id # None /\ latest_id(posts) = prev_latest_id)
        => NoCalls

\* C3: with NOTIFY_ALL disabled, a new post whose classifier response starts
\* with "[NONE]" produces no send_email call, and the cursor becomes its id.
Suppression ==
    (CycleDone /\ ~NOTIFY_ALL /\ gemini_call = "returned"
        /\ startswith(gemini_response_text, NoneMarker))
        => (email_call = "not_called" /\ latest_seen_post_id = posts.first.id)

\* The end-to-end scenario: cursor "1", post "2", response "[NONE][...]".
SuppressionWitness ==
    /\ CycleDone
    /\ ~NOTIFY_ALL
    /\ seen_at_fetch = "1"
    /\ posts.first.id = "2"
    /\ gemini_call = "returned"
    /\ startswith(gemini_response_text, NoneMarker)
    /\ email_call = "not_called"
    /\ latest_seen_post_id = "2"

\* C4 as stated: with NOTIFY_ALL enabled, every new post for which the
\* classifier returned a text has send_email called, whatever the text.
NotifyAllAnyText ==
    (CycleDone /\ NOTIFY_ALL /\ gemini_call = "returned")
        => email_call # "not_called"

\* C4, amended: with NOTIFY_ALL enabled, every new post for which the
\* classifier returned a text that is not empty after stripping has send_email
\* called, whatever the text (a "[NONE]" text included).
NotifyAllNonEmptyText ==
    (CycleDone /\ NOTIFY_ALL /\ gemini_call = "returned"
        /\ gemini_response_text # <<>>)
        => email_call # "not_called"

\* NOTIFY_ALL overrode a "[NONE]" response.
NotifyAllWitness ==
    /\ CycleDone
    /\ NOTIFY_ALL
    /\ gemini_call = "returned"
    /\ startswith(gemini_response_text, NoneMarker)
    /\ email_call = "sent"

\* C5: a loop cycle whose newest id differs from the set cursor ends with the
\* cursor at that id, whatever happens while the post is processed.
UnconditionalAdvance ==
    (CycleDone /\ seen_at_fetch # None /\ latest_id(posts) # None
        /\ latest_id(posts) # seen_at_fetch)
        => latest_seen_post_id = latest_id(posts)

\* C6: a loop fetch that gives None or anything but a non-empty list leaves
\* the cursor alone, calls neither the classifier nor send_email, and the loop
\* goes to its sleep; after the sleep the next step is the fetch.
FetchFailureStep ==
    /\ (pc = "process" /\ ~non_empty_list(posts) /\ pc' # "returned")
        => /\ pc' = "sleep"
           /\ latest_seen_post_id' = latest_seen_post_id
           /\ gemini_call' = "not_called"
           /\ email_call' = "not_called"
    /\ (pc = "sleep" /\ pc' # "returned") => pc' = "fetch"

FetchFailureNonFatal == [][FetchFailureStep]_vars

\* A failed fetch was skipped with a set cursor.
FetchFailureWitness ==
    /\ CycleDone
    /\ posts.kind = "null"
    /\ seen_at_fetch = "1"
    /\ latest_seen_post_id = "1"
    /\ NoCalls

\* C7 as stated, for a cycle that starts with the cursor set: a newest record
\* that lacks id or content makes the cycle a no-op: no classifier call, no
\* email, cursor as before the cycle.
MissingFieldSkips ==
    (CycleDone /\ seen_at_fetch # None
        /\ non_empty_list(posts) /\ posts.first.is_dict
        /\ (posts.first.id = Missing \/ posts.first.content_type = "absent"))
        => (NoCalls /\ latest_seen_post_id = seen_at_fetch)

\* C7, amended: a newest record that lacks id makes the cycle a no-op; one
\* that lacks content gets no classifier call and no email (its cursor
\* handling is that of any other post).
MissingIdSkips ==
    /\ (CycleDone /\ non_empty_list(posts) /\ posts.first.is_dict
            /\ posts.first.id = Missing)
        => (NoCalls /\ latest_seen_post_id = seen_at_fetch)
    /\ (CycleDone /\ non_empty_list(posts) /\ posts.first.is_dict
            /\ posts.first.content_type = "absent")
        => NoCalls

\* A record without id arrived while the cursor was set.
MissingIdWitness ==
    /\ CycleDone
    /\ non_empty_list(posts)
    /\ posts.first.is_dict
    /\ posts.first.id = Missing
    /\ posts.first.content_type = "str"
    /\ clean_html(posts.first.content) # <<>>
    /\ seen_at_fetch = "1"
    /\ latest_seen_post_id = "1"

\* C8: once the browser is launched, however the run ends, browser.close()
\* has been called when run_monitor returns or propagates.
BrowserClosedAtExit ==
    pc \in {"returned", "propagated"} => browser = "closed"

\* C9: a set cursor is never unset, and after every loop cycle the cursor is
\* the id of the post the loop last seeded from or detected as new.
CursorTracksDetected ==
    /\ seen_at_fetch # None => latest_seen_post_id # None
    /\ CycleDone => latest_seen_post_id = detected_id

\* No bracket-delimited token: no "[" is followed by a "]" without a newline
\* in between.
NoBracketToken(s) ==
    ~ \E i, j \in 1..Len(s) :
        /\ i < j
        /\ s[i] = "["
        /\ s[j] = "]"
        /\ \A k \in (i + 1)..(j - 1) : s[k] # "\n"

\* C10 as stated: format_gemini_for_email returns every annotation string
\* without bracket-delimited token unchanged.
NoBracketsUnchanged ==
    (fn_name = "format_gemini_for_email" /\ NoBracketToken(fn_input))
        => fn_output = fn_input

\* C10, amended: format_gemini_for_email returns every non-empty annotation
\* string without bracket-delimited token unchanged.
NonEmptyNoBracketsUnchanged ==
    (fn_name = "format_gemini_for_email" /\ fn_input # <<>>
        /\ NoBracketToken(fn_input))
        => fn_output = fn_input

\* Brackets that enclose a newline are no token: the string comes back as is.
NoBracketsWitness ==
    /\ fn_name = "format_gemini_for_email"
    /\ fn_input = <<"[", "\n", "]">>
    /\ fn_output = fn_input

\* C11: for the annotation strings "[NONE]" and "[NONE][justification]"
\* format_gemini_for_email returns exactly "NONE", followed - when the
\* justification token is there - by a blank line and the justification.
NoneMarkerOnly ==
    fn_name = "format_gemini_for_email" =>
        /\ fn_input = bracketed(<< <<"NONE">> >>) => fn_output = <<"NONE">>
        /\ \A j \in TokenSamples :
            fn_input = bracketed(<< <<"NONE">>, j >>)
                => fn_output = <<"NONE", "\n", "\n">> \o j

\* "[NONE][Tesla]" was formatted.
NoneMarkerWitness ==
    /\ fn_name = "format_gemini_for_email"
    /\ fn_input = bracketed(<< <<"NONE">>, <<"Tesla">> >>)
    /\ fn_output = <<"NONE", "\n", "\n", "Tesla">>

\* A character reference html.unescape would decode is left in s.
HasReference(s) ==
    \E k \in 1..(Len(s) - 1) : s[k] = "&" /\ s[k + 1] \in EntityNames

\* C12 as stated: cleaning an already cleaned string gives the same string.
CleanIdempotent ==
    fn_name = "clean_html" => clean_html(fn_output) = fn_output

\* C12, amended: cleaning an already cleaned string gives the same string
\* when the cleaned string holds no character reference.
CleanIdempotentWithoutReference ==
    (fn_name = "clean_html" /\ ~HasReference(fn_output))
        => clean_html(fn_output) = fn_output

\* "&amp; " was cleaned to "&", which cleans to itself.
CleanIdempotentWitness ==
    /\ fn_name = "clean_html"
    /\ fn_input = <<"&", "amp;", " ">>
    /\ fn_output = <<"&">>
    /\ clean_html(fn_output) = fn_output

\* The call has returned.
FormatReturned == fn_name \in {"format_gemini_for_email", "format_loop_done"}

\* Last token of analysis_parts when the loop is over.
LastAnalysisToken == loop_parts[Len(loop_parts)]

FormatLoopStep ==
    (fn_name = "format_loop" /\ fn_name' = "format_loop")
        => (loop_i' > loop_i /\ loop_i' <= Len(loop_parts))

\* At the head of the loop the index is within the tokens, and when the
\* loop goes on, the iteration to come takes 1, 2 or 3 tokens that exist.
LoopCanStep ==
    /\ loop_i \in 0..Len(loop_parts)
    /\ loop_i < Len(loop_parts) =>
            \E n \in 1..3 :
                /\ loop_i + n <= Len(loop_parts)
                /\ n > 1 => label_at(loop_parts, loop_i + n - 1)

\* The last analysis token closes no group and is the last line, "[token]".
TrailingTokenVerbatim ==
    ~label_at(loop_parts, Len(loop_parts) - 1)
        => loop_lines[Len(loop_lines)] = <<"[">> \o LastAnalysisToken \o <<"]">>

\* What holds of the state a step of the function leads to; the input is
\* the same before and after the step.
FormatResult ==
    /\ fn_name' = "format_loop" => LoopCanStep'
    /\ FormatReturned' => fn_output' \in Seq(STRING)
    /\ fn_name' = "format_loop_done" =>
            /\ fn_input' = fn_input
            /\ fn_output' = format_gemini_for_email(fn_input)
            /\ loop_i' = Len(loop_parts')
            /\ TrailingTokenVerbatim'
    /\ (fn_name' = "format_gemini_for_email" /\ fn_input_type' # "str")
            => fn_output' = InvalidResponse

\* C13: format_gemini_for_email ends with a string for every input, a str
\* or not: each iteration of the grouping loop moves the index up and never
\* past the end, at the head of the loop either the tokens are used up or the
\* iteration to come takes tokens that exist, the result is a string equal to
\* that of the function computed in one piece, and a last analysis token that
\* closes no group is rendered as the line "[token]".
FormatTerminates == [][FormatLoopStep /\ FormatResult]_vars

\* "[Tesla][up][TSLA][none]": a group of two, then the trailing "[TSLA]".
FormatTerminatesWitness ==
    /\ fn_name = "format_loop_done"
    /\ fn_input = bracketed(<< <<"Tesla">>, <<"up">>, <<"TSLA">>, <<"none">> >>)
    /\ loop_i = 3
    /\ fn_output = <<"Tesla", ": ", "CHART_UP", "\n", "[", "TSLA", "]",
                     "\n", "\n", "none">>

\* Iteration k of the loop took the right number of tokens, given the tokens
\* one and two ahead of where it started, and produced the line of its group.
GroupRight(k) ==
    LET at == loop_groups[k].at
        n == loop_groups[k].n
        two_ahead == at + 2 < Len(loop_parts) /\ label_at(loop_parts, at + 2)
        one_ahead == at + 1 < Len(loop_parts) /\ label_at(loop_parts, at + 1)
    IN  /\ n = (IF two_ahead THEN 3 ELSE IF one_ahead THEN 2 ELSE 1)
        /\ loop_lines[k] =
            (IF n = 3
             THEN entity_line(loop_parts[at + 1], loop_parts[at + 2],
                              UpperStr(loop_parts[at + 3]))
             ELSE IF n = 2
             THEN entity_line(loop_parts[at + 1], <<>>, UpperStr(loop_parts[at + 2]))
             ELSE <<"[">> \o loop_parts[at + 1] \o <<"]">>)

\* C15: when the first analysis token is not NONE the tokens are consumed
\* left to right, three at a time when the token two ahead is an impact
\* label, else two when the next one is, else one as the line "[token]";
\* every token is consumed exactly once and the lines keep the token order.
GroupingGreedy ==
    fn_name \in {"format_loop", "format_loop_done"} =>
        /\ Len(loop_lines) = Len(loop_groups)
        /\ \A k \in 1..Len(loop_groups) :
            /\ GroupRight(k)
            /\ loop_groups[k].at =
                (IF k = 1 THEN 0 ELSE loop_groups[k - 1].at + loop_groups[k - 1].n)
        /\ loop_i = (IF loop_groups = <<>> THEN 0
                     ELSE loop_groups[Len(loop_groups)].at
                          + loop_groups[Len(loop_groups)].n)
        /\ (fn_name = "format_loop_done" => loop_i = Len(loop_parts))

\* "[Tesla][TSLA][up][Tesla][none]": a group of three, then a lone token.
GroupingWitness ==
    /\ fn_name = "format_loop_done"
    /\ fn_input = bracketed(<< <<"Tesla">>, <<"TSLA">>, <<"up">>, <<"Tesla">>,
                               <<"none">> >>)
    /\ loop_groups = << [at |-> 0, n |-> 3], [at |-> 3, n |-> 1] >>
    /\ fn_output = <<"Tesla", " (", "TSLA", ")", ": ", "CHART_UP", "\n",
                     "[", "Tesla", "]", "\n", "\n", "none">>

\* The browser was never launched and nothing was fetched, classified or
\* mailed.
NothingStarted ==
    /\ browser = "none"
    /\ posts = [kind |-> "null", first |-> NoPost]
    /\ cycle_events = <<>>
    /\ NoCalls

\* C14: when one of GEMINI_API_KEY, SENDER_EMAIL, SENDER_APP_PASSWORD and
\* RECIPIENT_EMAIL is None or "", the process never gets past the validation:
\* it ends by exit(1), a non-zero status, with the browser never launched and
\* no fetch, classifier call or email.
StartupValidation ==
    (\E name \in CredentialNames : credentials[name] \in {None, ""})
        => /\ pc \in {"startup", "exited"}
           /\ NothingStarted
           /\ (pc = "exited" => exit_status # 0)

\* Only RECIPIENT_EMAIL is unset, and it is the empty string.
StartupValidationWitness ==
    /\ pc = "exited"
    /\ exit_status = 1
    /\ credentials = [name \in CredentialNames |->
                        IF name = "RECIPIENT_EMAIL" THEN "" ELSE "secret"]

\* The number of times x occurs in the sequence s.
Count(s, x) == Cardinality({k \in 1..Len(s) : s[k] = x})

\* The calls of a cycle so far, the sleep left out.
CallsBeforeSleep == SelectSeq(cycle_events, LAMBDA x : x # "sleep")

\* C16: a loop cycle makes one fetch, then at most one classifier call, then
\* at most one send_email call, whatever fails; the classifier and send_email
\* are each recorded as called exactly when they were called once.
NoRetryInCycle ==
    pc \in {"process", "sleep"} =>
        /\ CallsBeforeSleep \in
            { <<"fetch">>,
              <<"fetch", "generate_content">>,
              <<"fetch", "generate_content", "send_email">> }
        /\ (pc = "sleep" =>
                /\ (gemini_call # "not_called")
                        <=> Count(cycle_events, "generate_content") = 1
                /\ (email_call # "not_called")
                        <=> Count(cycle_events, "send_email") = 1)

\* The classifier raised: the cycle is over with no second call.
NoRetryWitness ==
    /\ pc = "sleep"
    /\ gemini_call = "raised"
    /\ cycle_events = <<"fetch", "generate_content">>

\* One step of the loop, as far as the sleep is concerned.
PauseStep ==
    /\ (pc = "process" /\ pc' # "returned") => pc' = "sleep"
    /\ (pc = "sleep" /\ pc' = "fetch") =>
            /\ cycle_events' = Append(cycle_events, "sleep")
            /\ Count(cycle_events', "sleep") = 1
    /\ (pc = "fetch" /\ pc' = "process") =>
            (cycle_events # <<>> =>
                /\ cycle_events[Len(cycle_events)] = "sleep"
                /\ Count(cycle_events, "sleep") = 1)
    /\ CHECK_INTERVAL_SECONDS' = CHECK_INTERVAL_SECONDS

\* C17: unless the run is ended, every loop cycle goes from its processing
\* to the sleep, whatever the outcome; the sleep is called once per cycle
\* with the interval read at startup, which never changes; and a loop fetch
\* that is not the first one comes right after the sleep of the cycle before.
UnconditionalPause == [][PauseStep]_vars

\* The cycle whose processing raised inside send_email has slept and the
\* loop is about to fetch again.
UnconditionalPauseWitness ==
    /\ pc = "fetch"
    /\ email_call = "raised"
    /\ cycle_events = <<"fetch", "generate_content", "send_email", "sleep">>

\* C18: send_email is called in a cycle only if, in that cycle, the cursor
\* was set at the fetch, the newest post has an id that differs from it, the
\* cleaned text of the post is not empty and the classifier returned a text
\* that is not empty; this holds with NOTIFY_ALL on as with it off.
EmailPrecondition ==
    email_call # "not_called" =>
        /\ seen_at_fetch # None
        /\ non_empty_list(posts)
        /\ has_id(posts)
        /\ posts.first.id # seen_at_fetch
        /\ posts.first.content_type # "null"
        /\ clean_html(posts.first.content) # <<>>
        /\ gemini_call = "returned"
        /\ gemini_response_text # <<>>

EmailPreconditionWitness ==
    /\ pc = "sleep"
    /\ NOTIFY_ALL
    /\ email_call = "sent"
    /\ startswith(gemini_response_text, NoneMarker)

\* C19: no post id has send_email try to deliver a message in more than one
\* cycle of a run.  (A call that raised before the delivery is not counted,
\* so that the repetitions of a post whose cycle ended in an exception are
\* left out.)
NoDuplicateAnnouncement == ~announced_again

====
